---- MODULE Spec2Model ----
(***************************************************************************)
(* Brand extraction backend (src/backend): the DOM-statistical colour and  *)
(* font aggregation of DOMNaiveExtractor, the browser lifecycle of         *)
(* PlaywrightMixin, the four extract_brand_elements strategies and         *)
(* BrandAnalyzer.analyze_website.                                          *)
(*                                                                         *)
(* The strings a page gives (colour and font-family texts) are TLA+        *)
(* strings; Text spells each as its sequence of characters, and strip,     *)
(* upper, lower, startswith, the \d+ scan and the %02X formatting work on  *)
(* those sequences, character by character.  A colour the code builds is   *)
(* such a sequence; Python's None is the empty sequence: no function       *)
(* modelled here returns an empty string.                                  *)
(***************************************************************************)
EXTENDS Integers, Sequences, FiniteSets, TLC

VARIABLES
    colors,      \* the dict handed to _process_colors (four category lists)
    colorOut,    \* what _process_colors returned, NoResult before the call
    fonts,       \* the list handed to _process_fonts
    fontOut,     \* what _process_fonts returned, NoResult before the call
    inst,        \* per extractor of BrandAnalyzer.extractors: self.playwright, self.browser
    drv,         \* per call: the Playwright driver that call started
    brw,         \* per call: the browser that call launched
    call,        \* per analyze_website call: where it is suspended, its locals
    delivered,   \* the last ExtractionResult analyze_website returned to a caller
    colorArg,    \* the shape of the argument of _process_colors around colors
    conv,        \* one string given to _convert_to_hex and what came back
    fontArg,     \* what kind of value is handed to _process_fonts: fonts, or no list
    contrast     \* two colours given to _get_contrast_ratio and what came back

colorVars == <<colors, colorOut, colorArg>>
fontVars == <<fonts, fontOut, fontArg>>
lifeVars == <<inst, drv, brw, call, delivered>>
pureVars == <<conv, contrast>>
vars == <<colors, colorOut, fonts, fontOut, inst, drv, brw, call, delivered, colorArg,
          conv, contrast, fontArg>>

(***************************************************************************)
(* Bounds of the model.                                                    *)
(***************************************************************************)
MaxObs == 3      \* colour observations collected from a page, all categories
MaxFonts == 4    \* font-family names collected from a page
NCalls == 2      \* analyze_website calls made on one BrandAnalyzer
MaxMalformedObs == 1  \* colour observations held by an ill-shaped argument
MaxHexDigits == 6 \* characters after '#' in a hex string given to _convert_to_hex

(***************************************************************************)
(* Strings.                                                                *)
(***************************************************************************)
None == <<>>
NoResult == [none |-> TRUE]

LowerLetters == <<"a","b","c","d","e","f","g","h","i","j","k","l","m",
                  "n","o","p","q","r","s","t","u","v","w","x","y","z">>
UpperLetters == <<"A","B","C","D","E","F","G","H","I","J","K","L","M",
                  "N","O","P","Q","R","S","T","U","V","W","X","Y","Z">>
DecDigits == <<"0","1","2","3","4","5","6","7","8","9">>
HexDigitsUpper == <<"0","1","2","3","4","5","6","7","8","9",
                    "A","B","C","D","E","F">>

\* position of ch in the sequence s, 0 when it is not there
IndexOf(ch, s) ==
    IF \E i \in 1..Len(s) : s[i] = ch
    THEN CHOOSE i \in 1..Len(s) : s[i] = ch
    ELSE 0

UpperChar(ch) ==
    IF IndexOf(ch, LowerLetters) > 0
    THEN UpperLetters[IndexOf(ch, LowerLetters)] ELSE ch

LowerChar(ch) ==
    IF IndexOf(ch, UpperLetters) > 0
    THEN LowerLetters[IndexOf(ch, UpperLetters)] ELSE ch

\* a comparison that keeps the letter case
lower_identity(s) == s

\* str.upper(), str.lower()
upper(s) == [i \in 1..Len(s) |-> UpperChar(s[i])]
lower(s) == [i \in 1..Len(s) |-> LowerChar(s[i])]

\* str.startswith(prefix)
startswith(s, prefix) ==
    /\ Len(s) >= Len(prefix)
    /\ \A i \in 1..Len(prefix) : s[i] = prefix[i]

RECURSIVE lstrip(_, _)
\* str.lstrip(ch)
lstrip(s, ch) ==
    IF s # <<>> /\ Head(s) = ch THEN lstrip(Tail(s), ch) ELSE s

RECURSIVE rstrip(_, _)
rstrip(s, ch) ==
    IF s # <<>> /\ s[Len(s)] = ch THEN rstrip(SubSeq(s, 1, Len(s) - 1), ch) ELSE s

\* str.strip(): the blanks at both ends go
strip(s) == rstrip(lstrip(s, " "), " ")

\* the slice s[i:j] of Python, 0-based and clipped to the string
Slice(s, i, j) ==
    LET hi == IF j > Len(s) THEN Len(s) ELSE j
    IN  IF i >= hi THEN <<>> ELSE SubSeq(s, i + 1, hi)

IsDecDigit(ch) == IndexOf(ch, DecDigits) > 0

RECURSIVE DecValue(_)
\* int(s) of a run of decimal digits
DecValue(s) ==
    IF s = <<>> THEN 0
    ELSE 10 * DecValue(SubSeq(s, 1, Len(s) - 1)) + (IndexOf(s[Len(s)], DecDigits) - 1)

RECURSIVE findall_digits(_)
\* re.findall(r'\d+', s): the maximal runs of decimal digits, left to right
findall_digits(s) ==
    IF s = <<>> THEN <<>>
    ELSE IF ~IsDecDigit(Head(s)) THEN findall_digits(Tail(s))
    ELSE LET n == IF \E k \in 1..Len(s) : ~IsDecDigit(s[k])
                  THEN (CHOOSE k \in 1..Len(s) :
                            /\ ~IsDecDigit(s[k])
                            /\ \A j \in 1..(k - 1) : IsDecDigit(s[j])) - 1
                  ELSE Len(s)
         IN  <<SubSeq(s, 1, n)>> \o findall_digits(SubSeq(s, n + 1, Len(s)))

RECURSIVE HexOf(_)
\* the uppercase hexadecimal digits of n >= 0, no padding
HexOf(n) ==
    IF n < 16 THEN <<HexDigitsUpper[n + 1]>>
    ELSE HexOf(n \div 16) \o <<HexDigitsUpper[(n % 16) + 1]>>

\* a format without the zero padding
Format02X_unpadded(n) == HexOf(n)

\* format(n, "02X"): at least two digits, more when n > 255
Format02X(n) == IF n < 16 THEN <<"0">> \o HexOf(n) ELSE HexOf(n)

\* the value of one hexadecimal digit in either case, -1 for any other character
HexDigitValue(ch) == IndexOf(UpperChar(ch), HexDigitsUpper) - 1

\* int(s, 16) succeeds, for a string of letters and digits: s is not empty
\* and holds hexadecimal digits only
IsHexInt(s) == s # <<>> /\ \A i \in 1..Len(s) : HexDigitValue(s[i]) >= 0

RECURSIVE HexValue(_)
HexValue(s) ==
    IF s = <<>> THEN 0
    ELSE 16 * HexValue(SubSeq(s, 1, Len(s) - 1)) + HexDigitValue(s[Len(s)])

(***************************************************************************)
(* The characters of every string the model's pages hold.                  *)
(***************************************************************************)
Text ==
    ("rgb(51, 51, 51)" :> <<"r", "g", "b", "(", "5", "1", ",", " ", "5", "1", ",", " ", "5", "1", ")">>) @@
    ("rgb(68, 68, 68)" :> <<"r", "g", "b", "(", "6", "8", ",", " ", "6", "8", ",", " ", "6", "8", ")">>) @@
    ("rgb(255, 255, 255)" :> <<"r", "g", "b", "(", "2", "5", "5", ",", " ", "2", "5", "5", ",", " ", "2", "5", "5", ")">>) @@
    ("rgba(0, 0, 0, 0.5)" :> <<"r", "g", "b", "a", "(", "0", ",", " ", "0", ",", " ", "0", ",", " ", "0", ".", "5", ")">>) @@
    ("rgb(300, 0, 0)" :> <<"r", "g", "b", "(", "3", "0", "0", ",", " ", "0", ",", " ", "0", ")">>) @@
    ("rgb(0, 102, 204)" :> <<"r", "g", "b", "(", "0", ",", " ", "1", "0", "2", ",", " ", "2", "0", "4", ")">>) @@
    ("#fff" :> <<"#", "f", "f", "f">>) @@
    ("#ffffff80" :> <<"#", "f", "f", "f", "f", "f", "f", "8", "0">>) @@
    (" #Ab12eF " :> <<" ", "#", "A", "b", "1", "2", "e", "F", " ">>) @@
    ("rgb(1, 2)" :> <<"r", "g", "b", "(", "1", ",", " ", "2", ")">>) @@
    ("rgba(5)" :> <<"r", "g", "b", "a", "(", "5", ")">>) @@
    ("inherit" :> <<"i", "n", "h", "e", "r", "i", "t">>) @@
    ("" :> <<>>) @@
    ("Red" :> <<"R", "e", "d">>) @@
    ("transparent" :> <<"t", "r", "a", "n", "s", "p", "a", "r", "e", "n", "t">>) @@
    ("Inter" :> <<"I", "n", "t", "e", "r">>) @@
    ("Roboto" :> <<"R", "o", "b", "o", "t", "o">>) @@
    ("Arial" :> <<"A", "r", "i", "a", "l">>) @@
    ("Georgia" :> <<"G", "e", "o", "r", "g", "i", "a">>) @@
    ("Helvetica" :> <<"H", "e", "l", "v", "e", "t", "i", "c", "a">>) @@
    ("arial" :> <<"a", "r", "i", "a", "l">>) @@
    ("sans-serif" :> <<"s", "a", "n", "s", "-", "s", "e", "r", "i", "f">>) @@
    ("Sans-Serif" :> <<"S", "a", "n", "s", "-", "S", "e", "r", "i", "f">>)

(***************************************************************************)
(* Colour constants of the source.                                         *)
(***************************************************************************)
Hex333333 == <<"#", "3", "3", "3", "3", "3", "3">>
Hex666666 == <<"#", "6", "6", "6", "6", "6", "6">>
HexFFFFFF == <<"#", "F", "F", "F", "F", "F", "F">>
Hex0066CC == <<"#", "0", "0", "6", "6", "C", "C">>
Hex000000 == <<"#", "0", "0", "0", "0", "0", "0">>
HexTRANSPARENT == <<"#", "T", "R", "A", "N", "S", "P", "A", "R", "E", "N", "T">>

\* webcolors.name_to_hex: the CSS3 names the model's pages use.  The lookup
\* lower-cases the name; a name that is not in the table raises ValueError.
CssNames ==
    { << <<"r", "e", "d">>,            <<"#", "f", "f", "0", "0", "0", "0">> >>,
      << <<"b", "l", "u", "e">>,       <<"#", "0", "0", "0", "0", "f", "f">> >>,
      << <<"w", "h", "i", "t", "e">>,  <<"#", "f", "f", "f", "f", "f", "f">> >>,
      << <<"b", "l", "a", "c", "k">>,  <<"#", "0", "0", "0", "0", "0", "0">> >> }

IsCssName(s) == \E e \in CssNames : e[1] = lower(s)
name_to_hex(s) == (CHOOSE e \in CssNames : e[1] = lower(s))[2]

(***************************************************************************)
(* DOMNaiveExtractor._convert_to_hex                                       *)
(***************************************************************************)
\* a hex branch that returns the digits without the '#'
already_hex_digits_only(color) == upper(Tail(color))

\* "Already hex" (line 250): return color.upper()
already_hex(color) == upper(color)

\* raw is the str itself, character by character; the empty sequence is the
\* empty string as well as None, which the function treats alike (both end
\* in return None)
_convert_to_hex(raw) ==
    LET color == strip(raw)
        numbers == findall_digits(color)
    IN  IF startswith(color, <<"#">>) THEN already_hex(color)
        ELSE IF startswith(color, <<"r", "g", "b">>) /\ Len(numbers) >= 3
        THEN <<"#">> \o Format02X(DecValue(numbers[1]))
                     \o Format02X(DecValue(numbers[2]))
                     \o Format02X(DecValue(numbers[3]))
        ELSE IF IsCssName(color) THEN upper(name_to_hex(color))
        ELSE None

(***************************************************************************)
(* DOMNaiveExtractor._get_contrast_ratio                                   *)
(*                                                                         *)
(* The ratio is a float in the source.  Here a channel's linear value is   *)
(* tabulated to 4 decimals (LinTable[c + 1] = round(10^4 * lin(c / 255))), *)
(* a luminance is an integer in 0..10^8, and a comparison of the ratio     *)
(* with a threshold is the cross-multiplied integer comparison.            *)
(***************************************************************************)
LinTable == <<
    0, 3, 6, 9, 12, 15, 18, 21, 24, 27, 30, 33, 37, 40, 44, 48,
    52, 56, 60, 65, 70, 75, 80, 86, 91, 97, 103, 110, 116, 123, 130, 137,
    144, 152, 160, 168, 176, 185, 194, 203, 212, 222, 232, 242, 252, 262, 273, 284,
    296, 307, 319, 331, 343, 356, 369, 382, 395, 409, 423, 437, 452, 467, 482, 497,
    513, 529, 545, 561, 578, 595, 612, 630, 648, 666, 685, 704, 723, 742, 762, 782,
    802, 823, 844, 865, 887, 908, 931, 953, 976, 999, 1022, 1046, 1070, 1095, 1119, 1144,
    1170, 1195, 1221, 1248, 1274, 1301, 1329, 1356, 1384, 1413, 1441, 1470, 1500, 1529, 1559, 1590,
    1620, 1651, 1683, 1714, 1746, 1779, 1812, 1845, 1878, 1912, 1946, 1981, 2016, 2051, 2086, 2122,
    2159, 2195, 2232, 2270, 2307, 2346, 2384, 2423, 2462, 2502, 2542, 2582, 2623, 2664, 2705, 2747,
    2789, 2831, 2874, 2918, 2961, 3005, 3050, 3095, 3140, 3185, 3231, 3278, 3325, 3372, 3419, 3467,
    3515, 3564, 3613, 3663, 3712, 3763, 3813, 3864, 3916, 3968, 4020, 4072, 4125, 4179, 4233, 4287,
    4342, 4397, 4452, 4508, 4564, 4621, 4678, 4735, 4793, 4851, 4910, 4969, 5029, 5089, 5149, 5210,
    5271, 5333, 5395, 5457, 5520, 5583, 5647, 5711, 5776, 5841, 5906, 5972, 6038, 6105, 6172, 6240,
    6308, 6376, 6445, 6514, 6584, 6654, 6724, 6795, 6867, 6939, 7011, 7084, 7157, 7231, 7305, 7379,
    7454, 7529, 7605, 7682, 7758, 7835, 7913, 7991, 8070, 8148, 8228, 8308, 8388, 8469, 8550, 8632,
    8714, 8796, 8879, 8963, 9047, 9131, 9216, 9301, 9387, 9473, 9560, 9647, 9734, 9823, 9911, 10000 >>

\* luminance(hex_color) raises: hex_color is None, or one of the three
\* two-character slices of the text after the leading '#'s is no hex integer
LuminanceRaises(hex) ==
    \/ hex = None
    \/ LET h == lstrip(hex, "#")
       IN  \E i \in {0, 2, 4} : ~IsHexInt(Slice(h, i, i + 2))

\* luminance(hex_color), scaled by 10^8
luminance(hex) ==
    LET h == lstrip(hex, "#")
        r == HexValue(Slice(h, 0, 2))
        g == HexValue(Slice(h, 2, 4))
        b == HexValue(Slice(h, 4, 6))
    IN  2126 * LinTable[r + 1] + 7152 * LinTable[g + 1] + 722 * LinTable[b + 1]

\* a ratio of the first colour against the second, whichever is lighter
_get_contrast_ratio_ordered(color1, color2) ==
    IF LuminanceRaises(color1) \/ LuminanceRaises(color2) THEN <<1, 1>>
    ELSE <<luminance(color1) + 5000000, luminance(color2) + 5000000>>

\* a ratio of the darker colour against the lighter
_get_contrast_ratio_inverted(color1, color2) ==
    IF LuminanceRaises(color1) \/ LuminanceRaises(color2) THEN <<1, 1>>
    ELSE LET lum1 == luminance(color1)
             lum2 == luminance(color2)
         IN  <<(IF lum1 >= lum2 THEN lum2 ELSE lum1) + 5000000,
               (IF lum1 >= lum2 THEN lum1 ELSE lum2) + 5000000>>

\* _get_contrast_ratio(color1, color2) as the fraction <<numerator, denominator>>;
\* any exception gives 1.0
_get_contrast_ratio(color1, color2) ==
    IF LuminanceRaises(color1) \/ LuminanceRaises(color2) THEN <<1, 1>>
    ELSE LET lum1 == luminance(color1)
             lum2 == luminance(color2)
             lighter == IF lum1 >= lum2 THEN lum1 ELSE lum2
             darker == IF lum1 >= lum2 THEN lum2 ELSE lum1
         IN  <<lighter + 5000000, darker + 5000000>>

\* ratio < k, for an integer k
RatioBelow(ratio, k) == ratio[1] < k * ratio[2]

(***************************************************************************)
(* collections.Counter over a list: the distinct values in the order they  *)
(* were first met (dict insertion order), each with its count.             *)
(***************************************************************************)
CountOf(x, seq) == Cardinality({i \in 1..Len(seq) : seq[i] = x})

RECURSIVE FirstSeen(_)
\* the keys of Counter(seq), in insertion order
FirstSeen(seq) ==
    IF seq = <<>> THEN <<>>
    ELSE LET init == SubSeq(seq, 1, Len(seq) - 1)
             last == seq[Len(seq)]
         IN  IF \E i \in 1..Len(init) : init[i] = last
             THEN FirstSeen(init)
             ELSE FirstSeen(init) \o <<last>>

\* Counter(seq).items(): <<key, count>> pairs in insertion order
Counter(seq) ==
    LET keys == FirstSeen(seq)
    IN  [i \in 1..Len(keys) |-> <<keys[i], CountOf(keys[i], seq)>>]

\* Counter(...).most_common(1)[0][0]: the first key, in insertion order, whose
\* count is maximal
most_common_1(items) ==
    LET i == CHOOSE i \in 1..Len(items) :
                 /\ \A j \in 1..Len(items) : items[j][2] <= items[i][2]
                 /\ \A j \in 1..(i - 1) : items[j][2] < items[i][2]
    IN  items[i][1]

RECURSIVE SelectSeqBy(_, _)
\* [x for x in seq if x in keep]
SelectSeqBy(seq, keep) ==
    IF seq = <<>> THEN <<>>
    ELSE IF Head(seq) \in keep
         THEN <<Head(seq)>> \o SelectSeqBy(Tail(seq), keep)
         ELSE SelectSeqBy(Tail(seq), keep)

(***************************************************************************)
(* DOMNaiveExtractor._get_most_common_color                                *)
(***************************************************************************)
\* a choice that drops the absent entries only
_get_most_common_color_unfiltered(color_list, default) ==
    LET present == SelectSeqBy(color_list,
                               {color_list[i] : i \in 1..Len(color_list)} \ {None})
    IN  IF present = <<>> THEN default
        ELSE most_common_1(Counter(present))

_get_most_common_color(color_list, default) ==
    LET filtered_colors ==
            SelectSeqBy(color_list,
                        {color_list[i] : i \in 1..Len(color_list)}
                            \ {None, HexFFFFFF, Hex000000})
    IN  IF filtered_colors = <<>> THEN default
        ELSE most_common_1(Counter(filtered_colors))

(***************************************************************************)
(* DOMNaiveExtractor._process_colors                                       *)
(***************************************************************************)
\* the keys of the dict the colour page script returns, in its insertion order
CategoryOrder == <<"textColors", "backgroundColors", "borderColors", "linkColors">>

\* _convert_to_hex of every string of the model's pages, evaluated once
HexOfRaw == [raw \in DOMAIN Text |-> _convert_to_hex(Text[raw])]

\* [self._convert_to_hex(c) for c in color_list]
ConvertAll(color_list) == [i \in 1..Len(color_list) |-> HexOfRaw[color_list[i]]]

\* a loop that appends whatever _convert_to_hex returned
DropNone_keeps_all(hexes) == hexes

\* the list with its None entries dropped ("if hex_color:")
DropNone(hexes) == SelectSeqBy(hexes, {hexes[i] : i \in 1..Len(hexes)} \ {None})

\* all_colors: every category's parseable colours, category after category
all_colors(cs) ==
    DropNone(ConvertAll(cs[CategoryOrder[1]])) \o DropNone(ConvertAll(cs[CategoryOrder[2]]))
    \o DropNone(ConvertAll(cs[CategoryOrder[3]])) \o DropNone(ConvertAll(cs[CategoryOrder[4]]))

\* an exclusion set that lets white through
excluded_colors_black_only == {Hex000000, HexTRANSPARENT}

excluded_colors == {HexFFFFFF, Hex000000, HexTRANSPARENT}

\* filtered_colors: the items of Counter(all_colors) whose colour is not excluded
filtered_colors(cs) ==
    LET items == Counter(all_colors(cs))
    IN  SelectSeqBy(items, {it \in {items[i] : i \in 1..Len(items)} :
                                it[1] \notin excluded_colors})

\* most_common = list(filtered_colors.keys())[:10] if filtered_colors else ['#333333']
most_common(cs) ==
    LET items == filtered_colors(cs)
    IN  IF items # <<>>
        THEN [i \in 1..(IF Len(items) > 10 THEN 10 ELSE Len(items)) |-> items[i][1]]
        ELSE <<Hex333333>>

bg_color(cs) == _get_most_common_color(ConvertAll(cs.backgroundColors), HexFFFFFF)

\* a link colour picked without the filter on white and black
link_color_unfiltered(cs) ==
    _get_most_common_color_unfiltered(ConvertAll(cs.linkColors), Hex0066CC)

link_color(cs) == _get_most_common_color(ConvertAll(cs.linkColors), Hex0066CC)

\* primary_color = most_common[0] if most_common else '#333333'
primary_color(most) == IF most # <<>> THEN most[1] ELSE Hex333333

\* a secondary that repeats the primary when there is no second candidate
secondary_candidate_repeat(most) == IF Len(most) > 1 THEN most[2] ELSE most[1]

\* secondary_color = most_common[1] if len(most_common) > 1 else '#666666'
secondary_candidate(most) == IF Len(most) > 1 THEN most[2] ELSE Hex666666

\* a legibility check that forgets the override
legibility_check_none(secondary, bg) == secondary

\* a legibility check whose override ignores the background
legibility_check_no_bg(secondary, bg) ==
    IF RatioBelow(_get_contrast_ratio(secondary, bg), 3) THEN Hex333333 ELSE secondary

\* a legibility check with the two override values exchanged
legibility_check_swapped(secondary, bg) ==
    IF RatioBelow(_get_contrast_ratio(secondary, bg), 3)
    THEN IF bg # Hex333333 THEN HexFFFFFF ELSE Hex333333
    ELSE secondary

\* the legibility check of lines 224-225 on the candidate secondary
legibility_check(secondary, bg) ==
    IF RatioBelow(_get_contrast_ratio(secondary, bg), 3)
    THEN IF bg # Hex333333 THEN Hex333333 ELSE HexFFFFFF
    ELSE secondary

_process_colors(cs) ==
    LET most == most_common(cs)
        bg == bg_color(cs)
    IN  [ primaryColor |-> primary_color(most),
          secondaryColor |-> legibility_check(secondary_candidate(most), bg),
          backgroundColor |-> bg,
          linkColor |-> link_color(cs) ]

(***************************************************************************)
(* Arguments of _process_colors other than the dict of four lists that the *)
(* page script gives.  The shape of an argument says whether it is a dict  *)
(* at all (kind), which of the four keys it lacks (missing) and which of   *)
(* its keys hold a value that cannot be iterated, such as a number         *)
(* (nonlist).                                                              *)
(***************************************************************************)
WellFormed == [kind |-> "dict", missing |-> {}, nonlist |-> {}]

\* a try block that lets nothing fail
process_colors_raises_never(shape) == FALSE

\* the try block raises: colors.items() on a non-dict (line 199), or the
\* iteration of a value that is no list (line 200)
process_colors_raises(shape) ==
    \/ shape.kind # "dict"
    \/ shape.nonlist \ shape.missing # {}

\* what the loops of lines 199-203 and the .get(..., []) of lines 216-217
\* see of a dict: a key it lacks contributes nothing
Present(cs, shape) ==
    [c \in DOMAIN cs |-> IF c \in shape.missing \cup shape.nonlist THEN <<>> ELSE cs[c]]

\* the dict of the except branch (lines 236-241)
DefaultColors ==
    [ primaryColor |-> Hex333333,
      secondaryColor |-> Hex666666,
      backgroundColor |-> HexFFFFFF,
      linkColor |-> Hex0066CC ]

\* _process_colors with its try/except: the try block's dict, or the except
\* branch's dict when the try block raised
process_colors_try(cs, shape) ==
    IF process_colors_raises(shape) THEN DefaultColors
    ELSE _process_colors(Present(cs, shape))

(***************************************************************************)
(* DOMNaiveExtractor._process_fonts                                        *)
(***************************************************************************)
generic_fonts ==
    { <<"s", "e", "r", "i", "f">>,
      <<"s", "a", "n", "s", "-", "s", "e", "r", "i", "f">>,
      <<"m", "o", "n", "o", "s", "p", "a", "c", "e">>,
      <<"c", "u", "r", "s", "i", "v", "e">>,
      <<"f", "a", "n", "t", "a", "s", "y">>,
      <<"s", "y", "s", "t", "e", "m", "-", "u", "i">> }

system_fonts ==
    { <<"A", "r", "i", "a", "l">>,
      <<"H", "e", "l", "v", "e", "t", "i", "c", "a">>,
      <<"T", "i", "m", "e", "s">>,
      <<"C", "o", "u", "r", "i", "e", "r">>,
      <<"V", "e", "r", "d", "a", "n", "a">>,
      <<"G", "e", "o", "r", "g", "i", "a">>,
      <<"P", "a", "l", "a", "t", "i", "n", "o">>,
      <<"G", "a", "r", "a", "m", "o", "n", "d">>,
      <<"B", "o", "o", "k", "m", "a", "n">>,
      <<"C", "o", "m", "i", "c", " ", "S", "a", "n", "s", " ", "M", "S">>,
      <<"T", "r", "e", "b", "u", "c", "h", "e", "t", " ", "M", "S">>,
      <<"A", "r", "i", "a", "l", " ", "B", "l", "a", "c", "k">>,
      <<"I", "m", "p", "a", "c", "t">> }

RECURSIVE custom_fonts(_)
\* the names that are neither generic (in any letter case) nor system fonts
custom_fonts(fs) ==
    IF fs = <<>> THEN <<>>
    ELSE IF lower(Text[Head(fs)]) \notin generic_fonts /\ Text[Head(fs)] \notin system_fonts
         THEN <<Head(fs)>> \o custom_fonts(Tail(fs))
         ELSE custom_fonts(Tail(fs))

RECURSIVE fallback_fonts(_)
\* the names that are not generic and are system fonts
fallback_fonts(fs) ==
    IF fs = <<>> THEN <<>>
    ELSE IF lower(Text[Head(fs)]) \notin generic_fonts /\ Text[Head(fs)] \in system_fonts
         THEN <<Head(fs)>> \o fallback_fonts(Tail(fs))
         ELSE fallback_fonts(Tail(fs))

\* a selection that fills up with system fonts after the custom ones
selected_fonts_merged(fs) == Slice(custom_fonts(fs) \o fallback_fonts(fs), 0, 2)

\* final_fonts = custom_fonts[:2] if custom_fonts else fallback_fonts[:2]
selected_fonts(fs) ==
    IF custom_fonts(fs) # <<>>
    THEN Slice(custom_fonts(fs), 0, 2)
    ELSE Slice(fallback_fonts(fs), 0, 2)

\* a padding that takes the observed system fonts before the fixed ones
final_fonts_fallback_first(fs) ==
    IF Len(selected_fonts(fs)) < 2
    THEN Slice(selected_fonts(fs) \o FirstSeen(fallback_fonts(fs))
                   \o <<"Helvetica", "Arial", "sans-serif">>, 0, 2)
    ELSE selected_fonts(fs)

\* a selection that is never padded
final_fonts_unpadded(fs) == selected_fonts(fs)

\* the padding of a selection shorter than 2 (lines 183-185)
final_fonts(fs) ==
    IF Len(selected_fonts(fs)) < 2
    THEN Slice(selected_fonts(fs) \o <<"Helvetica", "Arial", "sans-serif">>, 0, 2)
    ELSE selected_fonts(fs)

_process_fonts(fs) == [fonts |-> final_fonts(fs)]

\* the try block raises: the argument cannot be iterated (line 172), or an
\* entry has no lower() (line 173)
process_fonts_raises(fs, kind) ==
    \/ kind # "list"
    \/ \E i \in 1..Len(fs) : fs[i] \in {"<None>", "<42>"}

\* a handler that leaves the entries that are no strings out and goes on
process_fonts_try_skipping(fs, kind) ==
    IF kind # "list" THEN [fonts |-> <<"Arial", "sans-serif">>]
    ELSE _process_fonts(SelectSeq(fs, LAMBDA f : f \notin {"<None>", "<42>"}))

\* _process_fonts with its try/except (lines 159-191)
process_fonts_try(fs, kind) ==
    IF process_fonts_raises(fs, kind) THEN [fonts |-> <<"Arial", "sans-serif">>]
    ELSE _process_fonts(fs)

(***************************************************************************)
(* _process_fonts of the other three strategies, each with the sets, the   *)
(* loop and the padding its own source file spells out.                    *)
(***************************************************************************)
\* the loop, the choice and the padding, over the sets of one strategy
process_fonts_with(generic, system, padding, fs, kind) ==
    LET custom == SelectSeq(fs, LAMBDA f : lower(Text[f]) \notin generic
                                            /\ Text[f] \notin system)
        fallback == SelectSeq(fs, LAMBDA f : lower(Text[f]) \notin generic
                                              /\ Text[f] \in system)
        chosen == IF custom # <<>> THEN Slice(custom, 0, 2)
                  ELSE Slice(fallback, 0, 2)
    IN  IF process_fonts_raises(fs, kind) THEN [fonts |-> <<"Arial", "sans-serif">>]
        ELSE IF Len(chosen) < 2 THEN [fonts |-> Slice(chosen \o padding, 0, 2)]
        ELSE [fonts |-> chosen]

\* a system set that has lost Georgia
CSSLLM_system_fonts_short ==
    { <<"A", "r", "i", "a", "l">>,
      <<"H", "e", "l", "v", "e", "t", "i", "c", "a">>,
      <<"T", "i", "m", "e", "s">>,
      <<"C", "o", "u", "r", "i", "e", "r">>,
      <<"V", "e", "r", "d", "a", "n", "a">>,
      <<"P", "a", "l", "a", "t", "i", "n", "o">>,
      <<"G", "a", "r", "a", "m", "o", "n", "d">>,
      <<"B", "o", "o", "k", "m", "a", "n">>,
      <<"C", "o", "m", "i", "c", " ", "S", "a", "n", "s", " ", "M", "S">>,
      <<"T", "r", "e", "b", "u", "c", "h", "e", "t", " ", "M", "S">>,
      <<"A", "r", "i", "a", "l", " ", "B", "l", "a", "c", "k">>,
      <<"I", "m", "p", "a", "c", "t">> }

CSSLLM_generic_fonts ==
    { <<"s", "e", "r", "i", "f">>,
      <<"s", "a", "n", "s", "-", "s", "e", "r", "i", "f">>,
      <<"m", "o", "n", "o", "s", "p", "a", "c", "e">>,
      <<"c", "u", "r", "s", "i", "v", "e">>,
      <<"f", "a", "n", "t", "a", "s", "y">>,
      <<"s", "y", "s", "t", "e", "m", "-", "u", "i">> }

CSSLLM_system_fonts ==
    { <<"A", "r", "i", "a", "l">>,
      <<"H", "e", "l", "v", "e", "t", "i", "c", "a">>,
      <<"T", "i", "m", "e", "s">>,
      <<"C", "o", "u", "r", "i", "e", "r">>,
      <<"V", "e", "r", "d", "a", "n", "a">>,
      <<"G", "e", "o", "r", "g", "i", "a">>,
      <<"P", "a", "l", "a", "t", "i", "n", "o">>,
      <<"G", "a", "r", "a", "m", "o", "n", "d">>,
      <<"B", "o", "o", "k", "m", "a", "n">>,
      <<"C", "o", "m", "i", "c", " ", "S", "a", "n", "s", " ", "M", "S">>,
      <<"T", "r", "e", "b", "u", "c", "h", "e", "t", " ", "M", "S">>,
      <<"A", "r", "i", "a", "l", " ", "B", "l", "a", "c", "k">>,
      <<"I", "m", "p", "a", "c", "t">> }

CSSLLM_padding == <<"Helvetica", "Arial", "sans-serif">>

\* CSSLLMExtractor._process_fonts
CSSLLM_process_fonts(fs, kind) ==
    process_fonts_with(CSSLLM_generic_fonts, CSSLLM_system_fonts, CSSLLM_padding, fs, kind)

ScreenshotDirect_generic_fonts ==
    { <<"s", "e", "r", "i", "f">>,
      <<"s", "a", "n", "s", "-", "s", "e", "r", "i", "f">>,
      <<"m", "o", "n", "o", "s", "p", "a", "c", "e">>,
      <<"c", "u", "r", "s", "i", "v", "e">>,
      <<"f", "a", "n", "t", "a", "s", "y">>,
      <<"s", "y", "s", "t", "e", "m", "-", "u", "i">> }

ScreenshotDirect_system_fonts ==
    { <<"A", "r", "i", "a", "l">>,
      <<"H", "e", "l", "v", "e", "t", "i", "c", "a">>,
      <<"T", "i", "m", "e", "s">>,
      <<"C", "o", "u", "r", "i", "e", "r">>,
      <<"V", "e", "r", "d", "a", "n", "a">>,
      <<"G", "e", "o", "r", "g", "i", "a">>,
      <<"P", "a", "l", "a", "t", "i", "n", "o">>,
      <<"G", "a", "r", "a", "m", "o", "n", "d">>,
      <<"B", "o", "o", "k", "m", "a", "n">>,
      <<"C", "o", "m", "i", "c", " ", "S", "a", "n", "s", " ", "M", "S">>,
      <<"T", "r", "e", "b", "u", "c", "h", "e", "t", " ", "M", "S">>,
      <<"A", "r", "i", "a", "l", " ", "B", "l", "a", "c", "k">>,
      <<"I", "m", "p", "a", "c", "t">> }

ScreenshotDirect_padding == <<"Helvetica", "Arial", "sans-serif">>

\* ScreenshotDirectExtractor._process_fonts
ScreenshotDirect_process_fonts(fs, kind) ==
    process_fonts_with(ScreenshotDirect_generic_fonts, ScreenshotDirect_system_fonts, ScreenshotDirect_padding, fs, kind)

ScreenshotPalette_generic_fonts ==
    { <<"s", "e", "r", "i", "f">>,
      <<"s", "a", "n", "s", "-", "s", "e", "r", "i", "f">>,
      <<"m", "o", "n", "o", "s", "p", "a", "c", "e">>,
      <<"c", "u", "r", "s", "i", "v", "e">>,
      <<"f", "a", "n", "t", "a", "s", "y">>,
      <<"s", "y", "s", "t", "e", "m", "-", "u", "i">> }

ScreenshotPalette_system_fonts ==
    { <<"A", "r", "i", "a", "l">>,
      <<"H", "e", "l", "v", "e", "t", "i", "c", "a">>,
      <<"T", "i", "m", "e", "s">>,
      <<"C", "o", "u", "r", "i", "e", "r">>,
      <<"V", "e", "r", "d", "a", "n", "a">>,
      <<"G", "e", "o", "r", "g", "i", "a">>,
      <<"P", "a", "l", "a", "t", "i", "n", "o">>,
      <<"G", "a", "r", "a", "m", "o", "n", "d">>,
      <<"B", "o", "o", "k", "m", "a", "n">>,
      <<"C", "o", "m", "i", "c", " ", "S", "a", "n", "s", " ", "M", "S">>,
      <<"T", "r", "e", "b", "u", "c", "h", "e", "t", " ", "M", "S">>,
      <<"A", "r", "i", "a", "l", " ", "B", "l", "a", "c", "k">>,
      <<"I", "m", "p", "a", "c", "t">> }

ScreenshotPalette_padding == <<"Helvetica", "Arial", "sans-serif">>

\* ScreenshotPaletteExtractor._process_fonts
ScreenshotPalette_process_fonts(fs, kind) ==
    process_fonts_with(ScreenshotPalette_generic_fonts, ScreenshotPalette_system_fonts, ScreenshotPalette_padding, fs, kind)

(***************************************************************************)
(* The pages of the model: the raw strings a page's computed styles give.  *)
(***************************************************************************)
RawColors ==
    { "rgb(51, 51, 51)", "rgb(68, 68, 68)", "rgb(255, 255, 255)",
      "rgba(0, 0, 0, 0.5)", "rgb(300, 0, 0)", "#fff", "Red", "transparent" }

RawFonts ==
    { "Inter", "Arial", "Georgia", "Helvetica", "arial", "sans-serif",
      "Sans-Serif" }

\* entries of a list that are no strings: the values None and 42, which have
\* no lower()
NonStrings == {"<None>", "<42>"}

Categories == {CategoryOrder[i] : i \in 1..Len(CategoryOrder)}

NoColors == [c \in Categories |-> <<>>]

\* len of all category lists together
TotalObs(cs) ==
    Len(cs.textColors) + Len(cs.backgroundColors)
    + Len(cs.borderColors) + Len(cs.linkColors)

(***************************************************************************)
(* Strings given to _convert_to_hex and _get_contrast_ratio directly.      *)
(***************************************************************************)
RECURSIVE DecOf(_)
\* str(n) for n >= 0
DecOf(n) ==
    IF n < 10 THEN <<DecDigits[n + 1]>>
    ELSE DecOf(n \div 10) \o <<DecDigits[(n % 10) + 1]>>

\* the channel values the rgb strings are written with
Channels == {0, 7, 15, 16, 128, 255}

\* "rgb(r,g,b)" written tightly (1), as browsers print it (2), or with blanks
\* around everything (3); with an alpha channel it is "rgba(r,g,b,0.5)"
RgbText(r, g, b, spacing, alpha) ==
    LET sep == CASE spacing = 1 -> <<",">>
                 [] spacing = 2 -> <<",", " ">>
                 [] spacing = 3 -> <<" ", ",", " ">>
        open == IF spacing = 3 THEN <<"(", " ">> ELSE <<"(">>
        close == IF spacing = 3 THEN <<" ", ")", " ">> ELSE <<")">>
        lead == IF spacing = 3 THEN <<" ">> ELSE <<>>
        name == IF alpha THEN <<"r", "g", "b", "a">> ELSE <<"r", "g", "b">>
        tail == IF alpha THEN sep \o <<"0", ".", "5">> ELSE <<>>
    IN  lead \o name \o open \o DecOf(r) \o sep \o DecOf(g) \o sep \o DecOf(b)
             \o tail \o close

\* the characters the hex strings are written with
HexAlphabet == {"a", "F", "3"}

\* '#' followed by 1..MaxHexDigits characters of the alphabet
HexTexts ==
    UNION {{<<"#">> \o d : d \in [1..n -> HexAlphabet]} : n \in 1..MaxHexDigits}

\* the strings of Text that are given to _convert_to_hex as they are
ConvTexts ==
    { "rgb(51, 51, 51)", "rgba(0, 0, 0, 0.5)", "rgb(300, 0, 0)", "#fff",
      "#ffffff80", " #Ab12eF ", "Red", "transparent", "rgb(1, 2)", "rgba(5)",
      "inherit", "" }

IdleConv ==
    [ stage |-> "idle", key |-> "-", input |-> <<>>, rgb |-> <<>>,
      once |-> <<>>, twice |-> <<>>, with |-> NoResult, without |-> NoResult ]

\* the colours given to _get_contrast_ratio
ContrastInputs ==
    { None, Hex333333, Hex666666, HexFFFFFF, Hex000000, Hex0066CC,
      <<"#", "F", "F", "F">>,
      <<"#", "G", "G", "G", "G", "G", "G">>,
      <<"#", "3", "3", "3", "3", "3", "Z">>,
      <<"#", "F", "F", "F", "F", "F", "F", "8", "0">>,
      <<"#", "1", "2", "C", "0", "0", "0", "0">> }

\* the channel values the well-formed colours are written with
ContrastChannels == {0, 128, 255}

\* '#RRGGBB' for every choice of the three channels
ChannelColours ==
    {<<"#">> \o Format02X(r) \o Format02X(g) \o Format02X(b) :
         r \in ContrastChannels, g \in ContrastChannels, b \in ContrastChannels}

IdleContrast == [stage |-> "idle", color1 |-> <<>>, color2 |-> <<>>, out |-> <<0, 0>>]

(***************************************************************************)
(* BrandAnalyzer, its four extractors and the calls made on them.          *)
(***************************************************************************)
\* ExtractionMethod, by value
Methods == {"dom_naive", "screenshot_palette", "css_llm", "screenshot_direct"}

\* BaseBrandExtractor.method_name of the extractor registered for a method
method_name(m) ==
    CASE m = "dom_naive" -> "DOM_Naive"
      [] m = "screenshot_palette" -> "Screenshot_Palette"
      [] m = "css_llm" -> "CSS_LLM"
      [] m = "screenshot_direct" -> "Screenshot_Direct"

\* What a caller may pass as method: nothing, a member of ExtractionMethod, or
\* a value that is no member: "bogus" (a non-empty string) and "" (falsy).
MethodArgs == {"None", "bogus", ""} \cup Methods

Calls == 1..NCalls

\* the pages a call may be pointed at: 1 has styled elements, 2 has none
Pages == {1, 2}

\* what the font page script returns on each page
PageFonts(pg) == IF pg = 1 THEN <<"Inter", "Arial", "sans-serif">> ELSE <<>>

\* what the colour page script returns on each page
PageColors(pg) ==
    IF pg = 1
    THEN [ textColors |-> <<"rgb(68, 68, 68)", "Red">>,
           backgroundColors |-> <<"rgb(255, 255, 255)">>,
           borderColors |-> <<"rgb(68, 68, 68)">>,
           linkColors |-> <<"Red">> ]
    ELSE [c \in {"textColors", "backgroundColors", "borderColors", "linkColors"} |-> <<>>]

\* the BrandColors a language-model call answers with
LlmColors ==
    [ primaryColor |-> <<"#", "F", "F", "5", "7", "3", "3">>,
      secondaryColor |-> <<"#", "2", "2", "2", "2", "2", "2">>,
      backgroundColor |-> <<"#", "F", "A", "F", "A", "F", "A">>,
      linkColor |-> <<"#", "3", "3", "5", "7", "F", "F">> ]

\* the awaited page operations of each extract_brand_elements, in order,
\* after _setup_browser
PageSteps(m) ==
    CASE m = "dom_naive" -> <<"viewport", "goto", "fonts", "colors">>
      [] m = "css_llm" -> <<"viewport", "goto", "fonts", "css", "html", "styles">>
      [] m = "screenshot_direct" -> <<"viewport", "goto", "screenshot", "fonts">>
      [] m = "screenshot_palette" -> <<"viewport", "goto", "screenshot", "fonts">>

IdleCall ==
    [ pc |-> "idle", arg |-> "-", m |-> "-", page |-> 0, step |-> 0,
      target |-> 0, rawFonts |-> <<>>, fails |-> {}, ret |-> NoResult ]

DoneCall == [IdleCall EXCEPT !.pc = "done"]
PropagatedCall == [IdleCall EXCEPT !.pc = "propagated"]

\* the fall-back report of _create_error_result and of analyze_website
\* message is the f-string's parts; the text of an exception, str(e), is
\* the kind of the step that raised it
DefaultTuple(success, message, method) ==
    [ fonts |-> <<"Arial", "sans-serif">>,
      primaryColor |-> Hex333333,
      secondaryColor |-> Hex666666,
      backgroundColor |-> HexFFFFFF,
      linkColor |-> Hex0066CC,
      success |-> success,
      message |-> message,
      method |-> method ]

\* an error report whose primary colour is not the fixed one
create_error_result_white_primary(m, error_message) ==
    [ DefaultTuple(FALSE, <<method_name(m), " failed: ", error_message>>,
                   method_name(m))
      EXCEPT !.primaryColor = HexFFFFFF ]

\* BaseBrandExtractor._create_error_result
_create_error_result(m, error_message) ==
    DefaultTuple(FALSE, <<method_name(m), " failed: ", error_message>>,
                 method_name(m))

\* BaseBrandExtractor._create_success_result
_create_success_result(m, cols, fs) ==
    [ fonts |-> fs,
      primaryColor |-> cols.primaryColor,
      secondaryColor |-> cols.secondaryColor,
      backgroundColor |-> cols.backgroundColor,
      linkColor |-> cols.linkColor,
      success |-> TRUE,
      message |-> <<"Brand extraction completed successfully using ",
                    method_name(m)>>,
      method |-> method_name(m) ]

\* the except branch of analyze_website (lines 51-63), for a method that has
\* .value or is falsy
analysis_failed(arg, e) ==
    DefaultTuple(FALSE, <<"Analysis failed: ", e>>,
                 IF arg = "" THEN "unknown" ELSE arg)

\* the try block of analyze_brand (main.py lines 79-103) once analyze_website
\* has returned: the response it returns, or the HTTPException it raises
analyze_brand_try(result) ==
    IF result.success
    THEN [raised |-> FALSE, status_code |-> 200, detail |-> result.message]
    ELSE [raised |-> TRUE, status_code |-> 400, detail |-> result.message]

\* analyze_brand: "except Exception" (lines 105-110) catches what the try
\* block raised, the HTTPException of line 100 included, and raises
\* HTTPException(500, "Internal server error: " + str(e))
analyze_brand(result) ==
    LET outcome == analyze_brand_try(result)
    IN  IF outcome.raised
        THEN [ status_code |-> 500,
               detail |-> <<"Internal server error: ", "str(e)">> ]
        ELSE [status_code |-> outcome.status_code, detail |-> outcome.detail]

Init ==
    /\ colors = NoColors
    /\ colorOut = NoResult
    /\ fonts = <<>>
    /\ fontOut = NoResult
    /\ fontArg = "list"
    /\ inst = [m \in Methods |-> [playwright |-> 0, browser |-> 0]]
    /\ drv = [c \in Calls |-> "none"]
    /\ brw = [c \in Calls |-> "none"]
    /\ call = [c \in Calls |-> IdleCall]
    /\ delivered = NoResult
    /\ colorArg = WellFormed
    /\ conv = IdleConv
    /\ contrast = IdleContrast

(***************************************************************************)
(* The colour pipeline: the page script pushes one computed colour onto a  *)
(* category list (lines 111-136); _process_colors turns the lists into the *)
(* four roles.                                                             *)
(***************************************************************************)
ObserveColor(cat, raw) ==
    /\ colorOut = NoResult
    /\ colorArg = WellFormed
    /\ TotalObs(colors) < MaxObs
    /\ colors' = [colors EXCEPT ![cat] = Append(@, raw)]
    /\ UNCHANGED <<colorOut, colorArg, fontVars, lifeVars, pureVars>>

ProcessColors ==
    /\ colorOut = NoResult
    /\ colorOut' = process_colors_try(colors, colorArg)
    /\ UNCHANGED <<colors, colorArg, fontVars, lifeVars, pureVars>>

NextColors ==
    \/ \E cat \in Categories, raw \in RawColors : ObserveColor(cat, raw)
    \/ ProcessColors

SpecColors == Init /\ [][NextColors]_vars

(***************************************************************************)
(* _process_colors called directly, with an argument of any shape: not a   *)
(* dict, a dict without some of the four keys (the empty dict lacks all),  *)
(* or a dict with a key whose value is no list.                            *)
(***************************************************************************)
Shapes ==
    {[kind |-> "None", missing |-> {}, nonlist |-> {}]}
    \cup {[kind |-> "dict", missing |-> Categories, nonlist |-> {}]}
    \cup {[kind |-> "dict", missing |-> {c}, nonlist |-> {}] : c \in Categories}
    \cup {[kind |-> "dict", missing |-> {}, nonlist |-> {c}] : c \in Categories}

PassShape(shape) ==
    /\ colorOut = NoResult
    /\ colorArg = WellFormed
    /\ TotalObs(colors) <= MaxMalformedObs
    /\ \A c \in shape.missing \cup shape.nonlist : colors[c] = <<>>
    /\ colorArg' = shape
    /\ UNCHANGED <<colors, colorOut, fontVars, lifeVars, pureVars>>

NextColorArgs ==
    \/ \E cat \in Categories, raw \in RawColors : ObserveColor(cat, raw)
    \/ \E shape \in Shapes : PassShape(shape)
    \/ ProcessColors

SpecColorArgs == Init /\ [][NextColorArgs]_vars

(***************************************************************************)
(* The font pipeline: the page script hands over the collected names       *)
(* (lines 63-91); _process_fonts selects two.                              *)
(***************************************************************************)
ObserveFont(name) ==
    /\ fontOut = NoResult
    /\ fontArg = "list"
    /\ Len(fonts) < MaxFonts
    /\ fonts' = Append(fonts, name)
    /\ UNCHANGED <<fontOut, fontArg, colorVars, lifeVars, pureVars>>

ProcessFonts ==
    /\ fontOut = NoResult
    /\ fontOut' = process_fonts_try(fonts, fontArg)
    /\ UNCHANGED <<fonts, fontArg, colorVars, lifeVars, pureVars>>

NextFonts ==
    \/ \E name \in RawFonts : ObserveFont(name)
    \/ ProcessFonts

SpecFonts == Init /\ [][NextFonts]_vars

(***************************************************************************)
(* _process_fonts called directly with an argument of an unexpected shape: *)
(* a list that holds entries that are no strings, or a value that is no    *)
(* list at all (None, a number).                                           *)
(***************************************************************************)
PassNoList(kind) ==
    /\ fontOut = NoResult
    /\ fontArg = "list"
    /\ fonts = <<>>
    /\ fontArg' = kind
    /\ UNCHANGED <<fonts, fontOut, colorVars, lifeVars, pureVars>>

NextFontArgs ==
    \/ \E name \in RawFonts \cup NonStrings : ObserveFont(name)
    \/ \E kind \in {"None", "number"} : PassNoList(kind)
    \/ ProcessFonts

SpecFontArgs == Init /\ [][NextFontArgs]_vars

(***************************************************************************)
(* _convert_to_hex called on one string, and again on what it returned;    *)
(* and _process_colors on a dict that holds the string as the first        *)
(* observation of every category, next to the same dict without it.        *)
(***************************************************************************)
GiveRgb(r, g, b, spacing, alpha) ==
    /\ conv.stage = "idle"
    /\ conv' = [conv EXCEPT !.stage = "given",
                            !.input = RgbText(r, g, b, spacing, alpha),
                            !.rgb = <<r, g, b>>]
    /\ UNCHANGED <<contrast, colorVars, fontVars, lifeVars>>

GiveHex(text) ==
    /\ conv.stage = "idle"
    /\ conv' = [conv EXCEPT !.stage = "given", !.input = text]
    /\ UNCHANGED <<contrast, colorVars, fontVars, lifeVars>>

GiveText(key) ==
    /\ conv.stage = "idle"
    /\ conv' = [conv EXCEPT !.stage = "given", !.key = key, !.input = Text[key]]
    /\ UNCHANGED <<contrast, colorVars, fontVars, lifeVars>>

ConvertOnce ==
    /\ conv.stage = "given"
    /\ conv' = [conv EXCEPT !.stage = "once", !.once = _convert_to_hex(conv.input)]
    /\ UNCHANGED <<contrast, colorVars, fontVars, lifeVars>>

ConvertTwice ==
    /\ conv.stage = "once"
    /\ conv' = [conv EXCEPT !.stage = "twice", !.twice = _convert_to_hex(conv.once)]
    /\ UNCHANGED <<contrast, colorVars, fontVars, lifeVars>>

\* the dicts around an observation: other observations in some categories (1)
\* or none at all (2)
Around(ctx, first) ==
    IF ctx = 1
    THEN [ textColors |-> first \o <<"rgb(68, 68, 68)">>,
           backgroundColors |-> first \o <<"rgb(51, 51, 51)", "rgb(255, 255, 255)">>,
           borderColors |-> first,
           linkColors |-> first \o <<"Red">> ]
    ELSE [c \in Categories |-> first]

ProcessAround(ctx) ==
    /\ conv.stage = "once"
    /\ conv.key \in ConvTexts
    /\ conv' = [conv EXCEPT !.stage = "around",
                            !.with = _process_colors(Around(ctx, <<conv.key>>)),
                            !.without = _process_colors(Around(ctx, <<>>))]
    /\ UNCHANGED <<contrast, colorVars, fontVars, lifeVars>>

NextConvert ==
    \/ \E r, g, b \in Channels, spacing \in 1..3, alpha \in BOOLEAN :
           GiveRgb(r, g, b, spacing, alpha)
    \/ \E text \in HexTexts : GiveHex(text)
    \/ \E key \in ConvTexts : GiveText(key)
    \/ ConvertOnce
    \/ ConvertTwice
    \/ \E ctx \in 1..2 : ProcessAround(ctx)

SpecConvert == Init /\ [][NextConvert]_vars

(***************************************************************************)
(* _get_contrast_ratio called on two colours.                              *)
(***************************************************************************)
GivePair(color1, color2) ==
    /\ contrast.stage = "idle"
    /\ contrast' = [contrast EXCEPT !.stage = "given", !.color1 = color1, !.color2 = color2]
    /\ UNCHANGED <<conv, colorVars, fontVars, lifeVars>>

ContrastRatio ==
    /\ contrast.stage = "given"
    /\ contrast' = [contrast EXCEPT !.stage = "done",
                        !.out = _get_contrast_ratio(contrast.color1, contrast.color2)]
    /\ UNCHANGED <<conv, colorVars, fontVars, lifeVars>>

NextContrast ==
    \/ \E color1, color2 \in ContrastInputs \cup ChannelColours : GivePair(color1, color2)
    \/ ContrastRatio

SpecContrast == Init /\ [][NextContrast]_vars

(***************************************************************************)
(* analyze_website and extract_brand_elements.                             *)
(*                                                                         *)
(* A call is suspended at an await; one action is the completion of that   *)
(* await (it succeeds or raises) together with the code that runs up to    *)
(* the next await, where the object the next awaited method is called on   *)
(* is read.  inst[m].playwright and inst[m].browser are the attributes     *)
(* PlaywrightMixin sets on the extractor (0: not set); a driver or browser *)
(* is named by the call that started it.  kwargs are empty, as in the      *)
(* handler of POST /analyze.                                               *)
(***************************************************************************)
\* analyze_website returns result to its caller, the handler of POST
\* /analyze, which has no await before it answers
Deliver(c, rec, result) ==
    /\ call' = [call EXCEPT ![c] = DoneCall]
    /\ delivered' = [ call |-> c, arg |-> rec.arg, fails |-> rec.fails,
                      result |-> result,
                      response |-> analyze_brand(result) ]

\* _cleanup_browser up to its first await, with the extractor's attributes
\* as they are now: close() on self.browser, else stop() on self.playwright,
\* else extract_brand_elements returns rec.ret
EnterFinally(c, rec, attrs) ==
    IF attrs.browser # 0
    THEN /\ call' = [call EXCEPT ![c] = [rec EXCEPT !.pc = "close", !.target = attrs.browser]]
         /\ UNCHANGED delivered
    ELSE IF attrs.playwright # 0
    THEN /\ call' = [call EXCEPT ![c] = [rec EXCEPT !.pc = "stop", !.target = attrs.playwright]]
         /\ UNCHANGED delivered
    ELSE Deliver(c, rec, rec.ret)

\* the except branch of extract_brand_elements, then its finally
Except(c, rec, attrs, e) ==
    EnterFinally(c, [rec EXCEPT !.ret = _create_error_result(rec.m, e)], attrs)

\* BrandAnalyzer.analyze_website up to the first await of extract_brand_elements
AnalyzeWebsite(c, arg, pg) ==
    /\ call[c].pc = "idle"
    /\ \A d \in Calls : d < c => call[d].pc # "idle"
    /\ LET method == IF arg = "None" THEN "dom_naive" ELSE arg
       IN  IF method \notin Methods
           THEN \* ValueError, caught; building the report reads method.value
                IF method # ""
                THEN /\ call' = [call EXCEPT ![c] = PropagatedCall]
                     /\ UNCHANGED delivered
                ELSE Deliver(c, [IdleCall EXCEPT !.arg = arg, !.fails = {"method"}],
                             analysis_failed(method, "method"))
           ELSE /\ call' = [call EXCEPT ![c] =
                       [IdleCall EXCEPT !.pc = "start", !.arg = arg, !.m = method,
                                        !.page = pg]]
                /\ UNCHANGED delivered
    /\ UNCHANGED <<inst, drv, brw, colorVars, fontVars, pureVars>>

\* as AnalyzeWebsite, called only when no other call is in progress
AnalyzeWebsiteAlone(c, arg, pg) ==
    /\ \A d \in Calls : call[d].pc \in {"idle", "done", "propagated"}
    /\ AnalyzeWebsite(c, arg, pg)

\* self.playwright = await async_playwright().start()
StartDriver(c, ok) ==
    /\ call[c].pc = "start"
    /\ LET rec == call[c]
       IN  IF ok
           THEN /\ inst' = [inst EXCEPT ![rec.m].playwright = c]
                /\ drv' = [drv EXCEPT ![c] = "running"]
                /\ call' = [call EXCEPT ![c].pc = "launch"]
                /\ UNCHANGED delivered
           ELSE /\ Except(c, [rec EXCEPT !.fails = @ \cup {"setup"}], inst[rec.m], "setup")
                /\ UNCHANGED <<inst, drv>>
    /\ UNCHANGED <<brw, colorVars, fontVars, pureVars>>

\* self.browser = await self.playwright.chromium.launch(...)
LaunchBrowser(c, ok) ==
    /\ call[c].pc = "launch"
    /\ LET rec == call[c]
       IN  IF ok
           THEN /\ inst' = [inst EXCEPT ![rec.m].browser = c]
                /\ brw' = [brw EXCEPT ![c] = "open"]
                /\ call' = [call EXCEPT ![c].pc = "new_page"]
                /\ UNCHANGED delivered
           ELSE /\ Except(c, [rec EXCEPT !.fails = @ \cup {"setup"}], inst[rec.m], "setup")
                /\ UNCHANGED <<inst, brw>>
    /\ UNCHANGED <<drv, colorVars, fontVars, pureVars>>

\* return await self.browser.new_page()
NewPage(c, ok) ==
    /\ call[c].pc = "new_page"
    /\ LET rec == call[c]
       IN  IF ok
           THEN /\ call' = [call EXCEPT ![c].pc = "page", ![c].step = 1]
                /\ UNCHANGED delivered
           ELSE Except(c, [rec EXCEPT !.fails = @ \cup {"setup"}], inst[rec.m], "setup")
    /\ UNCHANGED <<inst, drv, brw, colorVars, fontVars, pureVars>>

\* the colours of the report once every page operation is done: DOM_Naive
\* processes what its colour script gave (its fallback dict when the script
\* failed); the other three ask the language model, whose call answers,
\* raises (the fixed BrandColors) or answers with no parsed output
FallbackColors ==
    [ textColors |-> <<"rgb(51, 51, 51)">>,
      backgroundColors |-> <<"rgb(255, 255, 255)">>,
      borderColors |-> <<>>,
      linkColors |-> <<"rgb(0, 102, 204)">> ]

FixedBrandColors ==
    [ primaryColor |-> Hex333333, secondaryColor |-> Hex666666,
      backgroundColor |-> HexFFFFFF, linkColor |-> Hex0066CC ]

\* the return of the try block: the report, or the error report when
\* _create_success_result raises on a BrandColors that is None
Report(rec, colorsOk, llm) ==
    LET fs == _process_fonts(rec.rawFonts).fonts
    IN  IF rec.m = "dom_naive"
        THEN _create_success_result(rec.m,
                 _process_colors(IF colorsOk THEN PageColors(rec.page) ELSE FallbackColors),
                 fs)
        ELSE IF llm = "none" THEN _create_error_result(rec.m, "llm")
        ELSE _create_success_result(rec.m,
                 IF llm = "ok" THEN LlmColors ELSE FixedBrandColors, fs)

\* one awaited page operation completes: set_viewport_size, goto, screenshot,
\* or the evaluate of a page script inside its own try/except
PageStep(c, ok, llm) ==
    /\ call[c].pc = "page"
    /\ LET rec == call[c]
           steps == PageSteps(rec.m)
           op == steps[rec.step]
           last == rec.step = Len(steps)
           swallowed == \/ op \in {"fonts", "colors", "css", "html", "styles"}
                        \/ op = "goto" /\ rec.m = "screenshot_palette"
           kind == CASE op = "goto" -> "nav"
                     [] op = "fonts" -> "fonts"
                     [] op \in {"colors", "css", "html", "styles"} -> "colors"
                     [] OTHER -> "page"
           fails1 == IF ok THEN rec.fails ELSE rec.fails \cup {kind}
           fails2 == IF last /\ rec.m # "dom_naive" /\ llm # "ok"
                     THEN fails1 \cup {"llm"} ELSE fails1
           rawFonts1 == IF op = "fonts"
                        THEN IF ok THEN PageFonts(rec.page) ELSE <<"Arial", "sans-serif">>
                        ELSE rec.rawFonts
           rec1 == [rec EXCEPT !.fails = fails1, !.rawFonts = rawFonts1]
       IN  /\ (last /\ rec.m # "dom_naive" /\ (ok \/ swallowed)) \/ llm = "ok"
           /\ IF ~ok /\ ~swallowed
              THEN Except(c, rec1, inst[rec.m], kind)
              ELSE IF ~last
              THEN /\ call' = [call EXCEPT ![c] = [rec1 EXCEPT !.step = @ + 1]]
                   /\ UNCHANGED delivered
              ELSE EnterFinally(c, [rec1 EXCEPT !.fails = fails2,
                                                !.ret = Report(rec1, ok, llm)],
                                inst[rec.m])
    /\ UNCHANGED <<inst, drv, brw, colorVars, fontVars, pureVars>>

\* await self.browser.close() completes; then _cleanup_browser reads
\* self.playwright.  A close() that raises leaves the finally block: the
\* exception replaces the report and analyze_website catches it.
CloseBrowser(c, ok) ==
    /\ call[c].pc = "close"
    /\ LET rec == call[c]
       IN  IF ok
           THEN /\ brw' = [brw EXCEPT ![rec.target] = "closed"]
                /\ IF inst[rec.m].playwright # 0
                   THEN /\ call' = [call EXCEPT ![c].pc = "stop",
                                                ![c].target = inst[rec.m].playwright]
                        /\ UNCHANGED delivered
                   ELSE Deliver(c, rec, rec.ret)
           ELSE /\ Deliver(c, [rec EXCEPT !.fails = @ \cup {"cleanup"}],
                           analysis_failed(rec.m, "cleanup"))
                /\ UNCHANGED brw
    /\ UNCHANGED <<inst, drv, colorVars, fontVars, pureVars>>

\* await self.playwright.stop() completes
StopDriver(c, ok) ==
    /\ call[c].pc = "stop"
    /\ LET rec == call[c]
       IN  IF ok
           THEN /\ drv' = [drv EXCEPT ![rec.target] = "stopped"]
                /\ Deliver(c, rec, rec.ret)
           ELSE /\ Deliver(c, [rec EXCEPT !.fails = @ \cup {"cleanup"}],
                           analysis_failed(rec.m, "cleanup"))
                /\ UNCHANGED drv
    /\ UNCHANGED <<inst, brw, colorVars, fontVars, pureVars>>

LlmOutcomes == {"ok", "raise", "none"}

Step(c) ==
    \/ \E ok \in BOOLEAN : StartDriver(c, ok)
    \/ \E ok \in BOOLEAN : LaunchBrowser(c, ok)
    \/ \E ok \in BOOLEAN : NewPage(c, ok)
    \/ \E ok \in BOOLEAN, llm \in LlmOutcomes : PageStep(c, ok, llm)
    \/ \E ok \in BOOLEAN : CloseBrowser(c, ok)
    \/ \E ok \in BOOLEAN : StopDriver(c, ok)

\* calls made one after the other on one BrandAnalyzer
NextSeq ==
    \E c \in Calls :
        \/ \E arg \in MethodArgs, pg \in Pages : AnalyzeWebsiteAlone(c, arg, pg)
        \/ Step(c)

SpecSeq == Init /\ [][NextSeq]_vars

\* one call of analyze_website on a new BrandAnalyzer, with any method
NextCall ==
    \/ \E arg \in MethodArgs, pg \in Pages : AnalyzeWebsite(1, arg, pg)
    \/ Step(1)

SpecCall == Init /\ [][NextCall]_vars

\* what AnalyzeRequest.method can hold: a member of ExtractionMethod, or None
RequestMethods == {"None"} \cup Methods

\* one request to POST /analyze: analyze_brand makes a BrandAnalyzer and one
\* call of analyze_website on it, and answers
NextRequest ==
    \/ \E arg \in RequestMethods, pg \in Pages : AnalyzeWebsite(1, arg, pg)
    \/ Step(1)

SpecRequest == Init /\ [][NextRequest]_vars

\* calls whose awaits interleave on one BrandAnalyzer
NextConc ==
    \E c \in Calls :
        \/ \E arg \in MethodArgs, pg \in Pages : AnalyzeWebsite(c, arg, pg)
        \/ Step(c)

SpecConc == Init /\ [][NextConc]_vars

(***************************************************************************)
(* Properties of the colour pipeline (SpecColors).                         *)
(***************************************************************************)
ColorsDone == colorOut # NoResult

\* items sorted by descending count, ties in first-encountered order
RankedByCount(items) ==
    LET Before(j, i) == \/ items[j][2] > items[i][2]
                        \/ items[j][2] = items[i][2] /\ j < i
        Rank(i) == Cardinality({j \in 1..Len(items) : Before(j, i)}) + 1
    IN  [k \in 1..Len(items) |-> items[CHOOSE i \in 1..Len(items) : Rank(i) = k][1]]

\* C1: the primary colour is the non-excluded colour with the highest total
\* count and the secondary candidate the one with the second-highest count,
\* ties broken by first-encountered order.
C1_RankedByCount ==
    ColorsDone =>
        LET ranked == RankedByCount(filtered_colors(colors))
        IN  /\ Len(ranked) >= 1 => colorOut.primaryColor = ranked[1]
            /\ Len(ranked) >= 2 =>
                   secondary_candidate(most_common(colors)) = ranked[2]

\* '#' followed by exactly six uppercase hexadecimal digits
IsHex7(hex) ==
    /\ Len(hex) = 7
    /\ hex[1] = "#"
    /\ \A i \in 2..7 : IndexOf(hex[i], HexDigitsUpper) > 0

\* C2: each of the four returned colours is '#' and six uppercase hex digits.
C2_SevenCharHex ==
    ColorsDone =>
        /\ IsHex7(colorOut.primaryColor)
        /\ IsHex7(colorOut.secondaryColor)
        /\ IsHex7(colorOut.backgroundColor)
        /\ IsHex7(colorOut.linkColor)

\* C8 as stated: the returned secondary always has a contrast ratio of at
\* least 3.0 against the returned background.
C8_ContrastAtLeast3 ==
    ColorsDone =>
        ~RatioBelow(_get_contrast_ratio(colorOut.secondaryColor,
                                        colorOut.backgroundColor), 3)

\* C8 amended: the returned secondary has a contrast ratio of at least 3.0
\* against the returned background unless it is the override value #333333,
\* which is returned without being checked again.
C8_ContrastOrOverride ==
    ColorsDone =>
        \/ ~RatioBelow(_get_contrast_ratio(colorOut.secondaryColor,
                                           colorOut.backgroundColor), 3)
        \/ colorOut.secondaryColor = Hex333333

\* a candidate secondary failed the check, was overridden, and the override
\* is itself below 3.0 against the background
C8_Witness ==
    /\ ColorsDone
    /\ RatioBelow(_get_contrast_ratio(secondary_candidate(most_common(colors)),
                                      bg_color(colors)), 3)
    /\ colorOut.secondaryColor = Hex333333
    /\ colorOut.secondaryColor # secondary_candidate(most_common(colors))
    /\ RatioBelow(_get_contrast_ratio(colorOut.secondaryColor,
                                      colorOut.backgroundColor), 3)

\* C9: a candidate secondary below 3.0 against the background is replaced by
\* #333333, or by #FFFFFF when the background is #333333; otherwise it is
\* returned unchanged; primary, background and link are what was selected
\* before the check.
C9_LegibilityOverride ==
    ColorsDone =>
        LET most == most_common(colors)
            cand == IF Len(most) > 1 THEN most[2] ELSE Hex666666
            bg == bg_color(colors)
            low == RatioBelow(_get_contrast_ratio(cand, bg), 3)
        IN  /\ low /\ bg # Hex333333 => colorOut.secondaryColor = Hex333333
            /\ low /\ bg = Hex333333 => colorOut.secondaryColor = HexFFFFFF
            /\ ~low => colorOut.secondaryColor = cand
            /\ colorOut.primaryColor = most[1]
            /\ colorOut.backgroundColor = bg
            /\ colorOut.linkColor = link_color(colors)

\* the candidate failed against a #333333 background and became #FFFFFF
C9_Witness ==
    /\ ColorsDone
    /\ colorOut.backgroundColor = Hex333333
    /\ colorOut.secondaryColor = HexFFFFFF
    /\ secondary_candidate(most_common(colors)) \notin {Hex333333, HexFFFFFF}

\* C10: the returned secondary is never the returned background.
C10_SecondaryNotBackground ==
    ColorsDone => colorOut.secondaryColor # colorOut.backgroundColor

\* the candidate secondary was the background colour itself
C10_Witness ==
    /\ ColorsDone
    /\ secondary_candidate(most_common(colors)) = colorOut.backgroundColor
    /\ colorOut.backgroundColor = Hex333333

(***************************************************************************)
(* Properties of the font pipeline (SpecFonts).                            *)
(***************************************************************************)
FontsDone == fontOut # NoResult

ScenarioInterArial == <<"Inter", "Arial", "sans-serif", "Arial">>

\* C3 as stated: for ["Inter","Arial","sans-serif","Arial"] custom is
\* ["Inter"], fallback is ["Arial"] and the selection is ["Inter","Arial"].
C3_InterThenArial ==
    FontsDone /\ fonts = ScenarioInterArial =>
        /\ custom_fonts(fonts) = <<"Inter">>
        /\ fallback_fonts(fonts) = <<"Arial">>
        /\ fontOut.fonts = <<"Inter", "Arial">>

\* C3 amended: for that input custom is ["Inter"], fallback is
\* ["Arial","Arial"] and the selection is ["Inter","Helvetica"]; whenever
\* exactly one custom font was observed the second slot is the first padding
\* font, Helvetica, whatever system fonts were observed.
C3_InterThenHelvetica ==
    /\ FontsDone /\ fonts = ScenarioInterArial =>
        /\ custom_fonts(fonts) = <<"Inter">>
        /\ fallback_fonts(fonts) = <<"Arial", "Arial">>
        /\ fontOut.fonts = <<"Inter", "Helvetica">>
    /\ FontsDone /\ Len(custom_fonts(fonts)) = 1 =>
        fontOut.fonts = <<custom_fonts(fonts)[1], "Helvetica">>

C3_Witness == FontsDone /\ fonts = ScenarioInterArial


(***************************************************************************)
(* Properties of analyze_website (SpecSeq, SpecConc).                      *)
(***************************************************************************)
\* the five fields of a report equal the fixed fall-back tuple
IsFixedTuple(r) ==
    /\ r.fonts = <<"Arial", "sans-serif">>
    /\ r.primaryColor = Hex333333
    /\ r.secondaryColor = Hex666666
    /\ r.backgroundColor = HexFFFFFF
    /\ r.linkColor = Hex0066CC

\* C4: whenever navigation, the font script, a colour script or the
\* language-model call failed during a call, the report delivered for that
\* call is the fixed tuple (fonts Arial, sans-serif; #333333, #666666,
\* #FFFFFF, #0066CC).
C4_FailureDeliversFixedTuple ==
    (delivered # NoResult /\ delivered.fails \cap {"nav", "fonts", "colors", "llm"} # {})
        => IsFixedTuple(delivered.result)

\* C5: no call of analyze_website ends with an exception reaching its
\* caller, whatever the method argument and whatever fails underneath.
C5_NeverRaises == \A c \in Calls : call[c].pc # "propagated"

\* C6: a call that is closing a browser or stopping a driver is closing or
\* stopping the one it started itself, never the one of another call on the
\* same extractor.
C6_ClosesOnlyItsOwn ==
    \A c \in Calls : call[c].pc \in {"close", "stop"} => call[c].target = c

\* C7: once a call has returned, the browser it launched is closed and the
\* driver it started is stopped, on every exit path and for every call of a
\* sequence of calls.
C7_SessionReleased ==
    \A c \in Calls : call[c].pc = "done" => (brw[c] # "open" /\ drv[c] # "running")


(***************************************************************************)
(* Further properties of the font pipeline (SpecFonts).                    *)
(***************************************************************************)
\* C11: _process_fonts returns exactly 2 font names, whatever the list of
\* names: empty or not, of any length, any mix of custom, system and generic.
C11_ExactlyTwoFonts == FontsDone => Len(fontOut.fonts) = 2

\* fewer than two names survive the filter of a list that mixes the kinds
C11_Witness ==
    /\ FontsDone
    /\ Len(fonts) >= 3
    /\ Len(custom_fonts(fonts)) = 1
    /\ fallback_fonts(fonts) # <<>>
    /\ Len(custom_fonts(fonts)) + Len(fallback_fonts(fonts)) < Len(fonts)
    /\ Len(fontOut.fonts) = 2

\* the reference rule, written over positions of the list: the positions
\* holding a name that is no generic keyword, split by membership of the
\* system font set and kept in list order
RefKept(fs, system) ==
    {i \in 1..Len(fs) : /\ lower(Text[fs[i]]) \notin generic_fonts
                        /\ (Text[fs[i]] \in system_fonts) = system}

\* the name at the k-th smallest position of a set of positions
RefNth(fs, pos, k) ==
    fs[CHOOSE i \in pos : Cardinality({j \in pos : j < i}) = k - 1]

RefFirstTwo(fs, pos) ==
    [k \in 1..(IF Cardinality(pos) > 2 THEN 2 ELSE Cardinality(pos)) |-> RefNth(fs, pos, k)]

RefSelection(fs) ==
    LET sel == IF RefKept(fs, FALSE) # {} THEN RefFirstTwo(fs, RefKept(fs, FALSE))
               ELSE RefFirstTwo(fs, RefKept(fs, TRUE))
        padded == sel \o <<"Helvetica", "Arial", "sans-serif">>
    IN  IF Len(sel) < 2 THEN <<padded[1], padded[2]>> ELSE sel

\* C12: _process_fonts equals the reference rule for every list: generic
\* keywords skipped, the first 2 custom fonts if there is a custom font, else
\* the first 2 system fonts, padded with Helvetica, Arial, sans-serif and cut
\* to 2; the empty list gives Helvetica, Arial.
C12_ReferenceRule ==
    FontsDone =>
        /\ fontOut.fonts = RefSelection(fonts)
        /\ fonts = <<>> => fontOut.fonts = <<"Helvetica", "Arial">>

\* the empty list was processed
C12_Witness ==
    /\ FontsDone
    /\ fonts = <<>>
    /\ fontOut.fonts = <<"Helvetica", "Arial">>


(***************************************************************************)
(* Further properties of the colour pipeline (SpecColorArgs, SpecColors).  *)
(***************************************************************************)
\* a returned role is a colour string, never absent
IsColour(hex) == hex # None /\ hex[1] = "#"

\* C13: _process_colors always returns a dict with the four roles, each a
\* colour: for the empty dict, for empty lists, for one candidate and for
\* several; and for an argument that makes it fail inside (no dict at all, or
\* a key whose value is no list) the dict is exactly #333333, #666666,
\* #FFFFFF, #0066CC.  The call itself always ends in a returned dict.
C13_AlwaysFourRoles ==
    ColorsDone =>
        /\ IsColour(colorOut.primaryColor)
        /\ IsColour(colorOut.secondaryColor)
        /\ IsColour(colorOut.backgroundColor)
        /\ IsColour(colorOut.linkColor)
        /\ (colorArg.kind # "dict" \/ colorArg.nonlist # {}) =>
               /\ colorOut.primaryColor = Hex333333
               /\ colorOut.secondaryColor = Hex666666
               /\ colorOut.backgroundColor = HexFFFFFF
               /\ colorOut.linkColor = Hex0066CC

\* a dict with a key holding no list and a colour observed under another key
\* was answered with the default set, not with what its lists would give
C13_Witness ==
    /\ ColorsDone
    /\ colorArg.kind = "dict"
    /\ colorArg.nonlist # {}
    /\ TotalObs(colors) >= 1
    /\ _process_colors(Present(colors, colorArg)) # DefaultColors
    /\ colorOut = DefaultColors

\* every observation of the dict is one _convert_to_hex gives None for
AllUnparseable(cs) ==
    \A c \in Categories : \A i \in 1..Len(cs[c]) : HexOfRaw[cs[c][i]] = None

\* C14: with no observation at all, or with unparseable observations only,
\* _process_colors returns exactly primary #333333, secondary #666666,
\* background #FFFFFF, link #0066CC; the legibility check leaves the default
\* secondary alone.
C14_UniversalDefault ==
    (ColorsDone /\ AllUnparseable(colors)) =>
        /\ colorOut.primaryColor = Hex333333
        /\ colorOut.secondaryColor = Hex666666
        /\ colorOut.backgroundColor = HexFFFFFF
        /\ colorOut.linkColor = Hex0066CC

\* unparseable observations in the background and in another category
C14_Witness ==
    /\ ColorsDone
    /\ AllUnparseable(colors)
    /\ colors.backgroundColors # <<>>
    /\ TotalObs(colors) >= 2
    /\ colorOut.secondaryColor = Hex666666

\* the rule of C15 for one category: picked is default when no entry other
\* than None, #FFFFFF, #000000 exists; otherwise picked is such an entry, no
\* other such entry occurs more often, and every such entry that occurs as
\* often was first met later
IsMostCommon(picked, hexes, default) ==
    LET kept == {i \in 1..Len(hexes) : hexes[i] \notin {None, HexFFFFFF, Hex000000}}
        Count(v) == Cardinality({i \in kept : hexes[i] = v})
        First(v) == CHOOSE i \in kept : hexes[i] = v /\ \A j \in kept : hexes[j] = v => i <= j
    IN  IF kept = {} THEN picked = default
        ELSE /\ \E i \in kept : hexes[i] = picked
             /\ \A i \in kept : Count(hexes[i]) <= Count(picked)
             /\ \A i \in kept : (hexes[i] # picked /\ Count(hexes[i]) = Count(picked))
                                    => First(picked) < First(hexes[i])

\* C15: backgroundColor is the most frequent of the normalized background
\* observations that is neither absent nor #FFFFFF nor #000000, the first met
\* among ties, or #FFFFFF when none is left; linkColor likewise over the link
\* observations with #0066CC.
C15_MostCommonPerCategory ==
    ColorsDone =>
        /\ IsMostCommon(colorOut.backgroundColor,
                        ConvertAll(colors.backgroundColors), HexFFFFFF)
        /\ IsMostCommon(colorOut.linkColor,
                        ConvertAll(colors.linkColors), Hex0066CC)

\* white, then two different colours once each, observed as backgrounds: the
\* first of the two is the background
C15_Witness ==
    /\ ColorsDone
    /\ Len(colors.backgroundColors) = 3
    /\ HexOfRaw[colors.backgroundColors[1]] = HexFFFFFF
    /\ HexOfRaw[colors.backgroundColors[2]] \notin {None, HexFFFFFF, Hex000000}
    /\ HexOfRaw[colors.backgroundColors[3]] \notin {None, HexFFFFFF, Hex000000}
    /\ HexOfRaw[colors.backgroundColors[2]] # HexOfRaw[colors.backgroundColors[3]]
    /\ colorOut.backgroundColor = HexOfRaw[colors.backgroundColors[2]]

\* C16: the candidate list holds neither #FFFFFF nor #000000, so the primary
\* colour is neither, even when white or black was observed most often.
C16_PrimaryNeverWhiteOrBlack ==
    ColorsDone =>
        /\ \A i \in 1..Len(most_common(colors)) :
               most_common(colors)[i] \notin {HexFFFFFF, Hex000000}
        /\ colorOut.primaryColor \notin {HexFFFFFF, Hex000000}

\* white was observed first and more often than the colour that became primary
C16_Witness ==
    /\ ColorsDone
    /\ Len(colors.textColors) = 3
    /\ HexOfRaw[colors.textColors[1]] = HexFFFFFF
    /\ HexOfRaw[colors.textColors[2]] = HexFFFFFF
    /\ HexOfRaw[colors.textColors[3]] = colorOut.primaryColor


(***************************************************************************)
(* Properties of _convert_to_hex (SpecConvert).                            *)
(***************************************************************************)
Converted == conv.stage \in {"once", "twice", "around"}

\* C17: for rgb(r,g,b) with channels in 0..255, in any spacing and with or
\* without an alpha channel, _convert_to_hex returns '#' and six uppercase
\* hex digits, and the three pairs of digits read back as r, g and b.
C17_RgbRoundTrip ==
    (Converted /\ conv.rgb # <<>>) =>
        /\ IsHex7(conv.once)
        /\ HexValue(SubSeq(conv.once, 2, 3)) = conv.rgb[1]
        /\ HexValue(SubSeq(conv.once, 4, 5)) = conv.rgb[2]
        /\ HexValue(SubSeq(conv.once, 6, 7)) = conv.rgb[3]

\* an rgba string with blanks around everything and channels of one, two
\* and three decimal digits was converted
C17_Witness ==
    /\ Converted
    /\ conv.rgb = <<7, 16, 255>>
    /\ conv.input[1] = " "
    /\ Len(findall_digits(conv.input)) = 5
    /\ conv.once = <<"#", "0", "7", "1", "0", "F", "F">>

\* C18: whenever _convert_to_hex returns a colour, applying it to that
\* colour returns the same colour; so for hex strings in lower, upper and
\* mixed case.
C18_Idempotent ==
    (conv.stage = "twice" /\ conv.once # None) => conv.twice = conv.once

\* a hex string of six digits in mixed case was converted twice
C18_Witness ==
    /\ conv.stage = "twice"
    /\ Len(conv.input) = 7
    /\ conv.input[1] = "#"
    /\ \E i, j \in 2..7 : conv.input[i] = "a" /\ conv.input[j] = "F"
    /\ conv.once # conv.input
    /\ conv.twice = conv.once

\* the strings C19 lists: too few integers after rgb/rgba, 'transparent',
\* the empty string, a keyword that is no colour name
AbsentKeys == {"rgb(1, 2)", "rgba(5)", "transparent", "", "inherit"}

\* C19: _convert_to_hex returns None for an rgb or rgba string with fewer
\* than three integers, for 'transparent', for the empty string and for a
\* keyword that is no CSS colour name; and a dict holding such a string in
\* every category is processed to the same four colours as without it.
C19_AbsentAndSkipped ==
    /\ (Converted /\ conv.key \in AbsentKeys) => conv.once = None
    /\ (conv.stage = "around" /\ conv.once = None) => conv.with = conv.without

\* 'transparent' leading every category of a dict with other observations
C19_Witness ==
    /\ conv.stage = "around"
    /\ conv.key = "transparent"
    /\ conv.once = None
    /\ conv.with = conv.without
    /\ conv.with.primaryColor # Hex333333
    /\ conv.with.backgroundColor # HexFFFFFF

(***************************************************************************)
(* Properties of _get_contrast_ratio (SpecContrast).                       *)
(***************************************************************************)
\* C20: when either argument is malformed (absent, holding a character that
\* is no hex digit, three digits long, or longer than six digits) the ratio
\* returned is 1.0.
C20_MalformedGivesOne ==
    (contrast.stage = "done"
        /\ (~IsHex7(contrast.color1) \/ ~IsHex7(contrast.color2)))
        => contrast.out[1] = contrast.out[2]


ContrastDone == contrast.stage = "done"

\* C21: _get_contrast_ratio(a, b) equals _get_contrast_ratio(b, a) for every
\* pair of arguments, well-formed or not.
C21_Symmetric ==
    ContrastDone =>
        contrast.out = _get_contrast_ratio(contrast.color2, contrast.color1)

\* the darker colour was given first
C21_Witness ==
    /\ ContrastDone
    /\ IsHex7(contrast.color1)
    /\ IsHex7(contrast.color2)
    /\ luminance(contrast.color1) < luminance(contrast.color2)
    /\ contrast.out[1] > contrast.out[2]

\* numerator / denominator <= k, without leaving 32 bits
RatioAtMost(r, k) ==
    \/ r[1] \div k < r[2]
    \/ r[1] \div k = r[2] /\ r[1] % k = 0

\* C22: a colour against itself gives 1.0; two well-formed colours give a
\* ratio from 1.0 to 21.0; #FFFFFF against #000000 gives 21.0.
C22_OneToTwentyOne ==
    ContrastDone =>
        /\ contrast.color1 = contrast.color2 => contrast.out[1] = contrast.out[2]
        /\ (IsHex7(contrast.color1) /\ IsHex7(contrast.color2)) =>
               /\ contrast.out[1] >= contrast.out[2]
               /\ RatioAtMost(contrast.out, 21)
        /\ ({contrast.color1, contrast.color2} = {HexFFFFFF, Hex000000}) =>
               /\ contrast.out[1] \div 21 = contrast.out[2]
               /\ contrast.out[1] % 21 = 0

\* black against white
C22_Witness ==
    /\ ContrastDone
    /\ contrast.color1 = Hex000000
    /\ contrast.color2 = HexFFFFFF
    /\ contrast.out = <<105000000, 5000000>>

(***************************************************************************)
(* C23: _process_fonts never fails; given an argument that cannot be       *)
(* iterated, or a list that holds an entry that is no string, it returns   *)
(* exactly ["Arial", "sans-serif"].                                        *)
(***************************************************************************)
UnexpectedShape ==
    \/ fontArg # "list"
    \/ \E i \in 1..Len(fonts) : fonts[i] \in NonStrings

C23_UnexpectedShapeGivesDefault ==
    FontsDone =>
        /\ Len(fontOut.fonts) = 2
        /\ UnexpectedShape => fontOut.fonts = <<"Arial", "sans-serif">>

\* a list with a custom font followed by None was processed
C23_Witness ==
    /\ FontsDone
    /\ fontArg = "list"
    /\ Len(fonts) = 2
    /\ fonts[1] = "Inter"
    /\ fonts[2] = "<None>"

(***************************************************************************)
(* C24: generic font keywords are skipped in any letter case, and the      *)
(* selection computed from a list of strings holds no generic keyword: the *)
(* padding entry sans-serif never survives the truncation to 2.            *)
(***************************************************************************)
GenericKeywordsUpper == {upper(g) : g \in generic_fonts}

IsGenericKeyword(name) == upper(Text[name]) \in GenericKeywordsUpper

C24_NoGenericKeyword ==
    FontsDone =>
        \A i \in 1..Len(fontOut.fonts) : ~IsGenericKeyword(fontOut.fonts[i])

\* a keyword in mixed case and one in lower case were skipped, and the one
\* custom font was padded
C24_Witness ==
    /\ FontsDone
    /\ fonts = <<"Sans-Serif", "Inter", "sans-serif">>
    /\ fontOut.fonts = <<"Inter", "Helvetica">>

(***************************************************************************)
(* C28: the four strategies classify fonts identically: for every input    *)
(* font list the _process_fonts of DOMNaiveExtractor, CSSLLMExtractor,     *)
(* ScreenshotDirectExtractor and ScreenshotPaletteExtractor return the     *)
(* same selection.                                                         *)
(***************************************************************************)
C28_SameSelection ==
    FontsDone =>
        /\ fontOut = process_fonts_try(fonts, fontArg)
        /\ fontOut = CSSLLM_process_fonts(fonts, fontArg)
        /\ fontOut = ScreenshotDirect_process_fonts(fonts, fontArg)
        /\ fontOut = ScreenshotPalette_process_fonts(fonts, fontArg)

\* a list with a system font, a generic keyword and two names that are in
\* neither set
C28_Witness ==
    /\ FontsDone
    /\ fonts = <<"Georgia", "sans-serif", "Inter", "arial">>
    /\ fontOut.fonts = <<"Inter", "arial">>

(***************************************************************************)
(* C29: for every input list of pairwise distinct font names the two names *)
(* returned by _process_fonts are different from each other.               *)
(***************************************************************************)
PairwiseDistinct(seq) ==
    \A i, j \in 1..Len(seq) : i # j => seq[i] # seq[j]

C29_TwoDifferentNames ==
    FontsDone /\ PairwiseDistinct(fonts) =>
        fontOut.fonts[1] # fontOut.fonts[2]

(***************************************************************************)
(* C30: the background returned by _process_colors is never #000000 and    *)
(* the link colour never #FFFFFF or #000000; the background is #FFFFFF     *)
(* only as the default.                                                    *)
(***************************************************************************)
\* a background observation other than white, black or an unparseable value
QualifyingBackground ==
    \E i \in 1..Len(colors.backgroundColors) :
        HexOfRaw[colors.backgroundColors[i]] \notin {None, HexFFFFFF, Hex000000}

NeverBlackNorWhiteLink ==
    /\ colorOut.backgroundColor # Hex000000
    /\ colorOut.linkColor \notin {HexFFFFFF, Hex000000}

\* C30 as stated: for every input, a #FFFFFF background means that no
\* background observation other than white, black or unparseable exists.
C30_WhiteOnlyWithoutObservation ==
    ColorsDone =>
        /\ NeverBlackNorWhiteLink
        /\ colorOut.backgroundColor = HexFFFFFF => ~QualifyingBackground

\* C30 amended: a #FFFFFF background means that no such observation exists,
\* or that the argument's shape made the call fail and the fixed default set
\* was returned whatever the background observations were.
C30_WhiteOnlyAsDefault ==
    ColorsDone =>
        /\ NeverBlackNorWhiteLink
        /\ colorOut.backgroundColor = HexFFFFFF =>
               \/ ~QualifyingBackground
               \/ colorArg.kind # "dict"
               \/ colorArg.nonlist # {}

\* black and white were observed as background and as link colour, and both
\* roles got their defaults
C30_Witness ==
    /\ ColorsDone
    /\ colorArg = WellFormed
    /\ \E i \in 1..Len(colors.backgroundColors) :
           HexOfRaw[colors.backgroundColors[i]] = Hex000000
    /\ \E i \in 1..Len(colors.linkColors) :
           HexOfRaw[colors.linkColors[i]] \in {HexFFFFFF, Hex000000}
    /\ colorOut.backgroundColor = HexFFFFFF
    /\ colorOut.linkColor = Hex0066CC

(***************************************************************************)
(* Properties of one call and of the request handler (SpecCall,            *)
(* SpecRequest).                                                           *)
(***************************************************************************)
Delivered == delivered # NoResult

\* C25: every ExtractionResult with success = false, whether built by an
\* extractor's _create_error_result or by analyze_website, carries exactly
\* fonts ["Arial", "sans-serif"], primary #333333, secondary #666666,
\* background #FFFFFF and link #0066CC.
C25_FailedResultIsFixedTuple ==
    /\ \A c \in Calls :
           (call[c].ret # NoResult /\ ~call[c].ret.success)
               => IsFixedTuple(call[c].ret)
    /\ (Delivered /\ ~delivered.result.success) => IsFixedTuple(delivered.result)

\* navigation failed, the extractor built its error report, then close()
\* failed and analyze_website built the report that was delivered
C25_Witness ==
    /\ Delivered
    /\ {"nav", "cleanup"} \subseteq delivered.fails
    /\ ~delivered.result.success
    /\ delivered.result.message = <<"Analysis failed: ", "cleanup">>

\* C26: when analyze_website returns a result with success = false, the
\* handler of POST /analyze answers with status 400 and result.message as
\* detail; status 500 is for an unexpected exception only.
C26_FailureAnswers400 ==
    (Delivered /\ ~delivered.result.success) =>
        /\ delivered.response.status_code = 400
        /\ delivered.response.detail = delivered.result.message

\* C27: for every strategy, once navigation to the url has failed the call
\* performs no further page step and its result has success = false.
C27_NavigationFailureEnds ==
    /\ \A c \in Calls : call[c].pc = "page" => "nav" \notin call[c].fails
    /\ (Delivered /\ "nav" \in delivered.fails) => ~delivered.result.success

====
